---- MODULE Spec2Model ----
(***************************************************************************)
(* upix-backend: the ingest worker (api/src/lib.rs), its predecessor in    *)
(* the root crate (src/lib.rs), the shared library (lib/src/lib.rs) and    *)
(* the on-demand worker (dyn/src/lib.rs).                                  *)
(*                                                                         *)
(* Text is a sequence of one-character strings, so that formatting a key   *)
(* and parsing a path are computed character by character.  A u32 that can *)
(* leave the range of the checker's integers (a product, a parsed scale)   *)
(* is held as two 16-bit halves [hi, lo].                                  *)
(***************************************************************************)
EXTENDS Integers, Sequences, FiniteSets, TLC

VARIABLES
    pc,       \* request -> "idle" | "uploading" | "done"
    req,      \* request -> the request it carries (NoRequest while idle)
    inflight, \* request -> the launched futures whose put has not completed
    outputs,  \* request -> join_all's output slots, one per launched future
    resp,     \* request -> the response sent (NoResponse until done)
    store,    \* the R2 bucket: key -> object
    decoded,  \* the requests whose payload was handed to the decoder
    probe,    \* the last evaluation of a pure function: [fn, in, out]
    dynPc,    \* dyn: "idle" | "generating" | "done", the retrieval being handled
    dynReq,   \* dyn: the retrieval request and what it meets at cache and bucket
    dynResp,  \* dyn: the response sent (NoResponse until done)
    reads,    \* dyn: the bucket keys the retrieval has read
    cache,    \* the response cache: path -> response
    waitUntil \* the cache puts handed to ctx.wait_until, not yet run

dynVars == <<dynPc, dynReq, dynResp, reads, cache, waitUntil>>

vars == <<pc, req, inflight, outputs, resp, store, decoded, probe, dynVars>>

\* Number of requests one behaviour serves.
MaxRequests == 2

Requests == 1..MaxRequests

----------------------------------------------------------------------------
\* Option<T>

None == [some |-> FALSE]
Some(v) == [some |-> TRUE, val |-> v]

----------------------------------------------------------------------------
\* 32-bit unsigned arithmetic on 16-bit halves

Half == 256 * 256

U32(n) == [hi |-> n \div Half, lo |-> n % Half]

\* The integer a u32 stands for; the checker can hold it when hi < 32768.
U32Val(x) == x.hi * Half + x.lo

U32Gt(x, y) == x.hi > y.hi \/ (x.hi = y.hi /\ x.lo > y.lo)

\* The low 32 bits and the carry-out of x * y, schoolbook on the halves; the
\* low product is split once more so that no intermediate exceeds 2^31.
MulParts(x, y) ==
    LET a0  == x.lo % 256
        a1  == x.lo \div 256
        p0  == a0 * y.lo
        p1  == a1 * y.lo
        q   == (p1 % 256) * 256 + p0
        lo  == q % Half
        c   == q \div Half + p1 \div 256
        m1  == x.hi * y.lo
        m2  == x.lo * y.hi
        mid == (m1 % Half) + (m2 % Half) + c
    IN  [lo   |-> lo,
         hi   |-> mid % Half,
         over |-> (m1 \div Half) + (m2 \div Half) + (mid \div Half) + x.hi * y.hi]

\* u32 `*` as a release build computes it: the product modulo 2^32.
WrappingMul(x, y) == [hi |-> MulParts(x, y).hi, lo |-> MulParts(x, y).lo]

\* Whether u32 `*` overflows (a build with overflow checks panics there).
MulOverflows(x, y) == MulParts(x, y).over > 0

DigitStr == <<"0", "1", "2", "3", "4", "5", "6", "7", "8", "9">>

\* Display for u32: the decimal digits, most significant first.
RECURSIVE FormatU32(_)
FormatU32(x) ==
    LET r   == x.hi % 10
        low == r * Half + x.lo
        q   == [hi |-> x.hi \div 10, lo |-> low \div 10]
        d   == <<DigitStr[(low % 10) + 1]>>
    IN  IF q.hi = 0 /\ q.lo = 0 THEN d ELSE FormatU32(q) \o d

----------------------------------------------------------------------------
\* Characters

DigitChars == {"0", "1", "2", "3", "4", "5", "6", "7", "8", "9"}
LowerChars == {"a", "b", "c", "d", "e", "f", "g", "h", "i", "j", "k", "l", "m",
               "n", "o", "p", "q", "r", "s", "t", "u", "v", "w", "x", "y", "z"}

DigitVal(c) == CHOOSE n \in 0..9 : DigitStr[n + 1] = c

\* [0-9a-fA-F]: a hash class that also takes uppercase digits.
IsHexAnyCase(c) == c \in DigitChars \/ c \in {"a", "b", "c", "d", "e", "f", "A", "B", "C", "D", "E", "F"}

\* The class [0-9a-f] of the request-path pattern.
IsHashChar(c) == c \in DigitChars \/ c \in {"a", "b", "c", "d", "e", "f"}

\* The class [0-9] of the request-path pattern.
IsScaleChar(c) == c \in DigitChars

\* The class [a-z] of the request-path pattern.
IsExtChar(c) == c \in LowerChars

\* {64}: the number of hash characters the pattern takes.
HashLen == 64

----------------------------------------------------------------------------
\* dyn: match_req_path

\* str::parse::<u32> on a run of ASCII digits: Horner's rule with a checked
\* multiply-add; an empty string or a value above u32::MAX is an error (None).
RECURSIVE ParseDigits(_, _)
ParseDigits(s, acc) ==
    IF s = <<>> THEN Some(acc)
    ELSE LET low  == acc.lo * 10 + DigitVal(Head(s))
             high == acc.hi * 10 + low \div Half
         IN  IF high >= Half THEN None
             ELSE ParseDigits(Tail(s), [hi |-> high, lo |-> low % Half])

ParseU32(s) == IF s = <<>> THEN None ELSE ParseDigits(s, U32(0))

\* [0-9]+ is greedy: the length of the longest run of scale characters
\* that s starts with.
RECURSIVE ScaleRun(_)
ScaleRun(s) ==
    IF s # <<>> /\ IsScaleChar(Head(s)) THEN 1 + ScaleRun(Tail(s)) ELSE 0

Drop(s, n) == SubSeq(s, n + 1, Len(s))

\* captures() of ^/(?P<hash>[0-9a-f]{64})(?P<sx>_(?P<scale>[0-9]+)x)?\.(?P<ext>[a-z]+)$
\* scanned left to right; None when the path does not match.
Captures(path) ==
    IF ~(Len(path) >= 1 + HashLen /\ path[1] = "/"
         /\ \A i \in 2..(1 + HashLen) : IsHashChar(path[i]))
    THEN None
    ELSE LET hash == SubSeq(path, 2, 1 + HashLen)
             rest == Drop(path, 1 + HashLen)
             nd   == IF rest # <<>> /\ rest[1] = "_" THEN ScaleRun(Tail(rest)) ELSE 0
             sx   == nd >= 1 /\ Len(rest) >= nd + 2 /\ rest[nd + 2] = "x"
             tl   == IF sx THEN Drop(rest, nd + 2) ELSE rest
         IN  IF Len(tl) >= 2 /\ tl[1] = "." /\ \A i \in 2..Len(tl) : IsExtChar(tl[i])
             THEN Some([hash  |-> hash,
                        sx    |-> sx,
                        scale |-> IF sx THEN SubSeq(rest, 2, nd + 1) ELSE <<>>,
                        ext   |-> Tail(tl)])
             ELSE None

MatchReqPath(path) ==
    LET caps == Captures(path) IN
    IF ~caps.some THEN None
    ELSE IF caps.val.sx
         THEN LET n == ParseU32(caps.val.scale) IN
              IF n.some
              THEN Some([hash |-> caps.val.hash, scale |-> n.val, ext |-> caps.val.ext])
              ELSE None
         ELSE Some([hash |-> caps.val.hash, scale |-> U32(1), ext |-> caps.val.ext])

\* test::HASH
HASH ==
    <<"1", "e", "a", "5", "e", "9", "f", "e", "b", "c", "7", "2", "6", "5", "4", "3",
      "2", "c", "4", "1", "c", "f", "8", "7", "b", "4", "1", "f", "9", "c", "a", "1",
      "e", "a", "0", "8", "4", "b", "e", "c", "6", "0", "0", "5", "0", "9", "a", "d",
      "d", "2", "c", "0", "4", "0", "4", "8", "a", "8", "f", "e", "c", "6", "0", "0">>

----------------------------------------------------------------------------
\* Result<T, E>

Ok(v) == [ok |-> TRUE, val |-> v]
Err(e) == [ok |-> FALSE, err |-> e]

\* A panic (the handler does not return).
Panic == [ok |-> FALSE, panic |-> TRUE]
IsPanic(x) == "panic" \in DOMAIN x

----------------------------------------------------------------------------
\* The image crate, as far as the workers use it

\* ImageFormat::from_mime_type: the format a MIME string names exactly; a
\* string with parameters, or one of no known format, names none.
FromMimeType(mime) ==
    IF mime.type = "image" /\ ~mime.params
          /\ mime.subtype \in {"png", "webp", "bmp", "gif", "jpeg", "tiff"}
    THEN Some(mime.subtype)
    ELSE None

\* ImageFormat::extensions_str: the extensions of a format, the usual one first.
ExtensionsStr(img_fmt) ==
    CASE img_fmt = "png"  -> << <<"p", "n", "g">> >>
      [] img_fmt = "webp" -> << <<"w", "e", "b", "p">> >>
      [] img_fmt = "bmp"  -> << <<"b", "m", "p">> >>
      [] img_fmt = "gif"  -> << <<"g", "i", "f">> >>
      [] img_fmt = "jpeg" -> << <<"j", "p", "g">>, <<"j", "p", "e", "g">> >>
      [] img_fmt = "tiff" -> << <<"t", "i", "f", "f">>, <<"t", "i", "f">> >>

\* ImageFormat::to_mime_type
ToMimeType(img_fmt) == [type |-> "image", subtype |-> img_fmt, params |-> FALSE]

\* image::load_from_memory_with_format.  A payload is the bytes received:
\* [id, len, enc, width, height, fault], where enc is the format the bytes
\* are written in and fault what a decoder of that format meets in them.
\* Decoding as another format than the bytes' own fails as a decoding error.
LoadFromMemoryWithFormat(data, img_fmt) ==
    IF data.enc # img_fmt \/ data.fault = "corrupt" THEN Err("Decoding")
    ELSE IF data.fault = "limits" THEN Err("Limits")
    ELSE Ok([width |-> data.width, height |-> data.height,
             pixels |-> [of |-> data.id, rep |-> 1]])

\* DynamicImage::resize(nwidth, nheight, FilterType::Nearest) called with
\* both sides multiplied by the same factor: every source pixel is repeated
\* factor x factor times.
Resize(img, nwidth, nheight, factor) ==
    [width |-> nwidth, height |-> nheight,
     pixels |-> [of |-> img.pixels.of, rep |-> img.pixels.rep * factor]]

----------------------------------------------------------------------------
\* lib: encode_image, upscale_image, ApiError, sha256_hex

\* The bytes img.write_to produces: the image, losslessly, in img_fmt.
EncodeImage(img, img_fmt) == [enc |-> img_fmt, img |-> img]

\* w * scale and h * scale are u32 products.
UpscaleImage(img, scale) ==
    Resize(img,
           U32Val(WrappingMul(U32(img.width), U32(scale))),
           U32Val(WrappingMul(U32(img.height), U32(scale))),
           scale)

ApiErrorNew(status, msg) == [status |-> status, message |-> Some(msg)]
ApiErrorNoMsg(status) == [status |-> status, message |-> None]

\* to_response dropping the message: every error an empty body.
ToResponseEmpty(e) == [status |-> e.status, cors |-> FALSE, body |-> [kind |-> "empty"]]

\* ApiError::to_response
ToResponse(e) ==
    IF e.message.some
    THEN [status |-> e.status, cors |-> FALSE,
          body |-> [kind |-> "json_message", message |-> e.message.val]]
    ELSE [status |-> e.status, cors |-> FALSE, body |-> [kind |-> "empty"]]

HexStr == <<"0", "1", "2", "3", "4", "5", "6", "7", "8", "9", "a", "b", "c", "d", "e", "f">>

\* A hasher that is never fed the data: the hash of nothing, for all data.
Sha256HexOfNothing(data) == HASH

\* SHA-256 of the bytes, hex-encoded: 64 lowercase hex characters that
\* depend on the bytes alone and differ between the payloads of the model.
\* The payload with id 1 has the digest the parser's test uses.
Sha256Hex(data) ==
    IF data.id = 1 THEN HASH
    ELSE [i \in 1..HashLen |-> HexStr[((data.id * (i + 2)) % 16) + 1]]

----------------------------------------------------------------------------
\* api: request validation

MAX_DATA_LEN == 512 * 1024

MAX_PIXELS == 65536
MAX_LONG_SIDE_LEN == 1024
MAX_ASPECT_RATIO == 16

\* The accepted formats with JPEG let through.
AcceptedFormatsAndJpeg == {"png", "webp", "bmp", "gif", "jpeg"}

AcceptedFormats == {"png", "webp", "bmp", "gif"}

ValidateImgFormat(content_type) ==
    IF content_type.type # "image"
    THEN Err(ApiErrorNew(400, <<"Content-Type is not for an image">>))
    ELSE LET img_fmt == FromMimeType(content_type) IN
         IF ~img_fmt.some
         THEN Err(ApiErrorNew(400, <<"Content-Type is not for an image">>))
         ELSE IF img_fmt.val \in AcceptedFormats
              THEN Ok(img_fmt.val)
              ELSE Err(ApiErrorNew(400, <<"Unsupported image format: ",
                                          ExtensionsStr(img_fmt.val)[1]>>))

\* get_image_data_from_req_body without its size check.
GetImageDataUnbounded(request, ctype) ==
    LET img_fmt == ValidateImgFormat(ctype) IN
    IF ~img_fmt.ok THEN img_fmt
    ELSE IF ~request.body.readable THEN Err(ApiErrorNoMsg(500))
    ELSE Ok([img_data |-> request.body.data, img_fmt |-> img_fmt.val])

\* get_image_data_from_req_body: format, then read, then size.
GetImageDataFromReqBody(request, ctype) ==
    LET img_fmt == ValidateImgFormat(ctype) IN
    IF ~img_fmt.ok THEN img_fmt
    ELSE IF ~request.body.readable THEN Err(ApiErrorNoMsg(500))
    ELSE IF request.body.data.len > MAX_DATA_LEN
         THEN Err(ApiErrorNew(413, <<"Too large image data">>))
    ELSE Ok([img_data |-> request.body.data, img_fmt |-> img_fmt.val])

\* get_image_data_from_form_data handing on the bytes of the whole form body
\* (other bytes than the file's) instead of the file's.
GetImageDataFromWholeForm(request) ==
    IF ~request.body.readable THEN Err(ApiErrorNoMsg(500))
    ELSE LET file_entry == request.body.file IN
         IF file_entry.kind = "absent"
         THEN Err(ApiErrorNew(400, <<"Missing 'file' field in form data">>))
         ELSE IF file_entry.kind # "file"
         THEN Err(ApiErrorNew(400, <<"'file' field is not a file">>))
         ELSE IF file_entry.data.len > MAX_DATA_LEN
         THEN Err(ApiErrorNew(413, <<"Too large image data">>))
         ELSE LET img_fmt == ValidateImgFormat(file_entry.type) IN
              IF ~img_fmt.ok THEN img_fmt
              ELSE IF ~file_entry.readable THEN Err(ApiErrorNoMsg(500))
              ELSE Ok([img_data |-> [file_entry.data EXCEPT !.id = @ + 16],
                       img_fmt |-> img_fmt.val])

\* get_image_data_from_form_data: the field, then size, then format, then read.
GetImageDataFromFormData(request) ==
    IF ~request.body.readable THEN Err(ApiErrorNoMsg(500))
    ELSE LET file_entry == request.body.file IN
         IF file_entry.kind = "absent"
         THEN Err(ApiErrorNew(400, <<"Missing 'file' field in form data">>))
         ELSE IF file_entry.kind # "file"
         THEN Err(ApiErrorNew(400, <<"'file' field is not a file">>))
         ELSE IF file_entry.data.len > MAX_DATA_LEN
         THEN Err(ApiErrorNew(413, <<"Too large image data">>))
         ELSE LET img_fmt == ValidateImgFormat(file_entry.type) IN
              IF ~img_fmt.ok THEN img_fmt
              ELSE IF ~file_entry.readable THEN Err(ApiErrorNoMsg(500))
              ELSE Ok([img_data |-> file_entry.data, img_fmt |-> img_fmt.val])

IsMultipart(content_type) ==
    content_type.type = "multipart" /\ content_type.subtype = "form-data"

GetImageDataFromRequest(request) ==
    IF ~request.content_type.some
    THEN Err(ApiErrorNew(400, <<"Missing Content-Type header">>))
    ELSE IF IsMultipart(request.content_type.val)
         THEN GetImageDataFromFormData(request)
         ELSE GetImageDataFromReqBody(request, request.content_type.val)

\* validate_img_dimension.  w * h is a u32 product: with overflow checks
\* (checked = TRUE, a debug build) it panics on overflow, without them it
\* wraps.  long / short > 16.0 in f64 is long > 16 * short for u32 operands.
ValidateImgDimension(img, checked) ==
    LET w     == img.width
        h     == img.height
        wh    == WrappingMul(U32(w), U32(h))
        long  == IF w > h THEN w ELSE h
        short == IF w > h THEN h ELSE w
    IN  IF checked /\ MulOverflows(U32(w), U32(h)) THEN Panic
        ELSE IF U32Gt(wh, U32(MAX_PIXELS))
        THEN Err(ApiErrorNew(400, <<"Image has too many pixels", FormatU32(wh),
                                    FormatU32(U32(MAX_PIXELS))>>))
        ELSE IF long > MAX_LONG_SIDE_LEN
        THEN Err(ApiErrorNew(400, <<"Long side of image is too long", FormatU32(U32(long)),
                                    FormatU32(U32(MAX_LONG_SIDE_LEN))>>))
        ELSE IF long > MAX_ASPECT_RATIO * short
        THEN Err(ApiErrorNew(400, <<"Aspect retio of image is out of range",
                                    FormatU32(U32(long)), FormatU32(U32(short)),
                                    FormatU32(U32(MAX_ASPECT_RATIO))>>))
        ELSE Ok(<<>>)

----------------------------------------------------------------------------
\* api: ImageUploader

\* The scale factors upload_all walks, in order.
Scales == <<1, 2, 4, 8, 16>>

\* take_while(|&x| long * x <= 1024): the prefix of xs before the first
\* factor whose u32 product with long exceeds 1024.
RECURSIVE TakeWhileFits(_, _)
TakeWhileFits(long, xs) ==
    IF xs # <<>> /\ ~U32Gt(WrappingMul(U32(long), U32(Head(xs))), U32(1024))
    THEN <<Head(xs)>> \o TakeWhileFits(long, Tail(xs))
    ELSE <<>>

\* upload_image_to_bucket: the key is the stem, a dot and the format's
\* first extension; the object carries the format's MIME type.
BucketKey(stem, img_fmt) == stem \o <<".">> \o ExtensionsStr(img_fmt)[1]

BucketObject(data, img_fmt) == [data |-> data, content_type |-> ToMimeType(img_fmt)]

\* A stem that leaves the scale out.
UpscaledStemNoScale(hash, scale) == hash

\* The stem of an upscaled image: the hash followed by the scale.
UpscaledStem(hash, scale) == hash \o <<"_">> \o FormatU32(U32(scale)) \o <<"x">>

\* The original stored under the stem of a 1x variant, like every scale.
UploadOriginalImageAs1x(uploader) ==
    LET name == BucketKey(UpscaledStem(uploader.hash, 1), uploader.dest_fmt) IN
    [scale    |-> 1,
     key      |-> name,
     object   |-> BucketObject(EncodeImage(uploader.img, uploader.dest_fmt), uploader.dest_fmt),
     uploaded |-> [name |-> name, scale |-> 1,
                   width |-> uploader.img.width, height |-> uploader.img.height]]

\* A future of upload_all: the put it issues once its image is encoded,
\* and the value it returns when that put succeeds.
UploadOriginalImage(uploader) ==
    LET name == BucketKey(uploader.hash, uploader.dest_fmt) IN
    [scale    |-> 1,
     key      |-> name,
     object   |-> BucketObject(EncodeImage(uploader.img, uploader.dest_fmt), uploader.dest_fmt),
     uploaded |-> [name |-> name, scale |-> 1,
                   width |-> uploader.img.width, height |-> uploader.img.height]]

UploadUpscaledImage(uploader, scale) ==
    LET scaled == UpscaleImage(uploader.img, scale)
        name   == BucketKey(UpscaledStem(uploader.hash, scale), uploader.dest_fmt)
    IN  [scale    |-> scale,
         key      |-> name,
         object   |-> BucketObject(EncodeImage(scaled, uploader.dest_fmt), uploader.dest_fmt),
         uploaded |-> [name |-> name, scale |-> scale,
                       width |-> scaled.width, height |-> scaled.height]]

Max(a, b) == IF a > b THEN a ELSE b

\* The futures upload_all hands to join_all, in order.
UploadAll(uploader) ==
    LET scales == TakeWhileFits(Max(uploader.img.width, uploader.img.height), Scales) IN
    [i \in 1..Len(scales) |->
        IF scales[i] = 1 THEN UploadOriginalImage(uploader)
        ELSE UploadUpscaledImage(uploader, scales[i])]

\* Outputs kept in the order the futures complete: the first free slot.
JoinAllByCompletion(outs, i, v) ==
    LET j == CHOOSE j \in 1..Len(outs) :
                 ~outs[j].some /\ \A k \in 1..(j - 1) : outs[k].some
    IN  [outs EXCEPT ![j] = Some(v)]

\* join_all: the output of the i-th future goes to the i-th slot.
JoinAllOutput(outs, i, v) == [outs EXCEPT ![i] = Some(v)]

\* A collect that drops the errors and keeps the values that are there.
RECURSIVE CollectSuccesses(_)
CollectSuccesses(outs) ==
    IF outs = <<>> THEN Ok(<<>>)
    ELSE IF Head(outs).val.ok
         THEN Ok(<<Head(outs).val.val>> \o CollectSuccesses(Tail(outs)).val)
         ELSE CollectSuccesses(Tail(outs))

\* into_iter().collect::<Result<Vec<_>, ()>>(): the values in slot order,
\* or the error if any slot holds one.
Collect(outs) ==
    IF \E i \in 1..Len(outs) : ~outs[i].val.ok
    THEN Err(<<>>)
    ELSE Ok([i \in 1..Len(outs) |-> outs[i].val.val])

\* Bucket::put: the key now names the object, whatever it named before.
BucketPut(st, key, object) ==
    [k \in DOMAIN st \cup {key} |-> IF k = key THEN object ELSE st[k]]

----------------------------------------------------------------------------
\* api: post_image up to the launch of the uploads (no await in between
\* but the read of the body, which touches nothing shared)

PostImageSync(request, checked) ==
    IF ~request.env_bucket
    THEN [decoded |-> FALSE, res |-> Err(ApiErrorNoMsg(500))]
    ELSE LET got == GetImageDataFromRequest(request) IN
         IF ~got.ok THEN [decoded |-> FALSE, res |-> got]
         ELSE LET img == LoadFromMemoryWithFormat(got.val.img_data, got.val.img_fmt) IN
              [decoded |-> TRUE,
               res |->
                 IF ~img.ok
                 THEN IF img.err = "Decoding"
                      THEN Err(ApiErrorNew(400, <<"Failed to decode image">>))
                      ELSE Err(ApiErrorNoMsg(500))
                 ELSE LET valid == ValidateImgDimension(img.val, checked) IN
                      IF IsPanic(valid) \/ ~valid.ok THEN valid
                      ELSE Ok([img      |-> img.val,
                               hash     |-> Sha256Hex(got.val.img_data),
                               dest_fmt |-> "png"])]

\* Response::with_cors
WithCors(response) == [response EXCEPT !.cors = TRUE]

\* Response::from_json(&images)
FromJson(images) == [status |-> 200, cors |-> FALSE,
                     body |-> [kind |-> "json_images", images |-> images]]

\* What the runtime answers when the handler panics.
Panicked == [status |-> 500, cors |-> FALSE, body |-> [kind |-> "exception"]]

----------------------------------------------------------------------------
\* root crate: handle_post_image, the worker api replaced

\* Response::error(msg, status)
ResponseError(msg, status) == [status |-> status, cors |-> FALSE,
                               body |-> [kind |-> "text", message |-> msg]]

RootHandlePostImageSync(request) ==
    IF ~request.env_bucket THEN Err(ResponseError("Internal Server Error", 500))
    ELSE IF ~request.content_type.some THEN Err(ResponseError("Bad Request", 400))
    ELSE IF request.content_type.val.type # "image" THEN Err(ResponseError("Bad Request", 400))
    ELSE LET img_fmt == FromMimeType(request.content_type.val) IN
         IF ~img_fmt.some THEN Err(ResponseError("Bad Request", 400))
         ELSE IF ~request.body.readable THEN Err(ResponseError("Bad Request", 400))
         ELSE LET img == LoadFromMemoryWithFormat(request.body.data, img_fmt.val) IN
              IF ~img.ok THEN Err(ResponseError("Internal Server Error", 500))
              ELSE Ok([img      |-> img.val,
                       hash     |-> Sha256Hex(request.body.data),
                       dest_fmt |-> "png"])

\* The five futures of map_pin!: every scale, whatever the image's size;
\* each returns () when its put succeeds.
RootTasks(uploader) ==
    [i \in 1..Len(Scales) |->
        [(IF Scales[i] = 1 THEN UploadOriginalImage(uploader)
          ELSE UploadUpscaledImage(uploader, Scales[i])) EXCEPT !.uploaded = <<>>]]

----------------------------------------------------------------------------
\* The futures a request launched (a function of the request it carries)

Futures(request) ==
    IF request.worker = "api"
    THEN UploadAll(PostImageSync(request, FALSE).res.val)
    ELSE RootTasks(RootHandlePostImageSync(request).val)

----------------------------------------------------------------------------
\* The requests the model sends

Payload(id, len, enc, width, height, fault) ==
    [id |-> id, len |-> len, enc |-> enc, width |-> width, height |-> height, fault |-> fault]

Png256    == Payload(1, 2048, "png", 256, 256, "none")
Gif1024   == Payload(2, MAX_DATA_LEN, "gif", 1024, 64, "none")
Bmp512    == Payload(3, 4096, "bmp", 512, 32, "none")
Webp600   == Payload(4, 4096, "webp", 600, 100, "none")
Png100    == Payload(5, 1024, "png", 100, 100, "none")
Png300x4  == Payload(6, 512, "png", 300, 4, "none")
Png257    == Payload(7, 2048, "png", 257, 256, "none")
Png2048x1 == Payload(8, 512, "png", 2048, 1, "none")
PngHuge   == Payload(9, 520000, "png", 65536, 65536, "none")
PngBig    == Payload(10, MAX_DATA_LEN + 1, "png", 256, 256, "none")
PngBad    == Payload(11, 2048, "png", 256, 256, "corrupt")
PngLimits == Payload(12, 2048, "png", 256, 256, "limits")
Jpeg100   == Payload(13, 2048, "jpeg", 100, 100, "none")
JpegBig   == Payload(14, MAX_DATA_LEN + 1, "jpeg", 100, 100, "none")

Mime(type, subtype) == [type |-> type, subtype |-> subtype, params |-> FALSE]
MimeWithParams(type, subtype) == [type |-> type, subtype |-> subtype, params |-> TRUE]

\* A request whose body is the image.
RawRequest(worker, content_type, data) ==
    [worker |-> worker, env_bucket |-> TRUE, content_type |-> content_type,
     body |-> [kind |-> "raw", readable |-> TRUE, data |-> data]]

\* A multipart/form-data request with the given `file` entry.
FormRequest(file) ==
    [worker |-> "api", env_bucket |-> TRUE,
     content_type |-> Some(MimeWithParams("multipart", "form-data")),
     body |-> [kind |-> "form", readable |-> TRUE, file |-> file]]

FileEntry(type, data) == [kind |-> "file", type |-> type, data |-> data, readable |-> TRUE]

\* Every request the ingest worker is probed with.
IngestSamples ==
    {RawRequest("api", None, Png256),
     RawRequest("api", Some(Mime("text", "plain")), Png256),
     RawRequest("api", Some(Mime("image", "svg+xml")), Png256),
     RawRequest("api", Some(MimeWithParams("image", "png")), Png256),
     RawRequest("api", Some(Mime("image", "jpeg")), Jpeg100),
     RawRequest("api", Some(Mime("image", "jpeg")), JpegBig),
     RawRequest("api", Some(Mime("image", "tiff")), Png256),
     RawRequest("api", Some(Mime("image", "png")), Png256),
     RawRequest("api", Some(Mime("image", "png")), Png100),
     RawRequest("api", Some(Mime("image", "gif")), Gif1024),
     RawRequest("api", Some(Mime("image", "bmp")), Bmp512),
     RawRequest("api", Some(Mime("image", "webp")), Webp600),
     RawRequest("api", Some(Mime("image", "png")), Gif1024),
     RawRequest("api", Some(Mime("image", "gif")), Png256),
     RawRequest("api", Some(Mime("image", "png")), PngBig),
     RawRequest("api", Some(Mime("image", "png")), PngBad),
     RawRequest("api", Some(Mime("image", "png")), PngLimits),
     RawRequest("api", Some(Mime("image", "png")), Png300x4),
     RawRequest("api", Some(Mime("image", "png")), Png257),
     RawRequest("api", Some(Mime("image", "png")), Png2048x1),
     RawRequest("api", Some(Mime("image", "png")), PngHuge),
     [RawRequest("api", Some(Mime("image", "png")), Png256) EXCEPT !.body.readable = FALSE],
     [RawRequest("api", Some(Mime("image", "png")), Png256) EXCEPT !.env_bucket = FALSE],
     FormRequest(FileEntry(Mime("image", "png"), Png256)),
     FormRequest(FileEntry(Mime("image", "png"), Png100)),
     FormRequest(FileEntry(Mime("image", "gif"), Gif1024)),
     FormRequest(FileEntry(Mime("image", "bmp"), Bmp512)),
     FormRequest(FileEntry(Mime("image", "webp"), Webp600)),
     FormRequest(FileEntry(Mime("image", "png"), PngBig)),
     FormRequest(FileEntry(Mime("image", "png"), PngBad)),
     FormRequest(FileEntry(Mime("image", "png"), Png300x4)),
     FormRequest(FileEntry(Mime("image", "png"), Png257)),
     FormRequest(FileEntry(Mime("image", "jpeg"), Jpeg100)),
     FormRequest(FileEntry(Mime("image", "jpeg"), JpegBig)),
     FormRequest(FileEntry(Mime("text", "plain"), Png256)),
     FormRequest(FileEntry(Mime("", ""), Png256)),
     FormRequest([FileEntry(Mime("image", "png"), Png256) EXCEPT !.readable = FALSE]),
     FormRequest([kind |-> "absent"]),
     FormRequest([kind |-> "field"]),
     [FormRequest(FileEntry(Mime("image", "png"), Png256)) EXCEPT !.body.readable = FALSE]}

\* The requests the concurrent model sends: one per way of being answered.
ApiRequests ==
    {RawRequest("api", None, Png256),
     RawRequest("api", Some(Mime("text", "plain")), Png256),
     RawRequest("api", Some(Mime("image", "jpeg")), Jpeg100),
     RawRequest("api", Some(Mime("image", "gif")), Gif1024),
     RawRequest("api", Some(Mime("image", "bmp")), Bmp512),
     RawRequest("api", Some(Mime("image", "png")), Gif1024),
     RawRequest("api", Some(Mime("image", "png")), PngBig),
     RawRequest("api", Some(Mime("image", "png")), Png300x4),
     RawRequest("api", Some(Mime("image", "png")), PngHuge),
     FormRequest(FileEntry(Mime("image", "bmp"), Bmp512)),
     FormRequest(FileEntry(Mime("image", "png"), PngBig))}

RootRequests ==
    {RawRequest("root", None, Png100),
     RawRequest("root", Some(Mime("text", "plain")), Png100),
     RawRequest("root", Some(Mime("image", "svg+xml")), Png100),
     RawRequest("root", Some(Mime("image", "png")), Png100),
     RawRequest("root", Some(Mime("image", "png")), PngBad),
     RawRequest("root", Some(Mime("image", "jpeg")), Png100),
     [RawRequest("root", Some(Mime("image", "png")), Png100) EXCEPT !.body.readable = FALSE],
     [RawRequest("root", Some(Mime("image", "png")), Png100) EXCEPT !.env_bucket = FALSE]}

----------------------------------------------------------------------------
\* dyn: handle and generate_upscaled_image

\* `let x = value;` followed by the code that uses x: the value is computed
\* once and then named.
Bind(value, Rest(_)) == CHOOSE out \in {Rest(x) : x \in {value}} : TRUE

\* A load that takes the bytes for the format the image was uploaded in.
LoadStoredAsSource(data, img_fmt) ==
    IF data.enc = img_fmt THEN Err("Decoding") ELSE Ok(data.img)

\* image::load_from_memory_with_format applied to bytes read from the
\* bucket: bytes an encoder wrote, [enc, img].
LoadStored(data, img_fmt) ==
    IF data.enc # img_fmt THEN Err("Decoding") ELSE Ok(data.img)

\* a / b <= c / d for naturals with b, d > 0, without forming a * d.
FracLeq(a, b, c, d) ==
    IF a \div b # c \div d THEN a \div b < c \div d
    ELSE (a % b) * d <= (c % d) * b

\* a / b rounded to the nearest integer, halves upwards (f64::round).
RoundDiv(a, b) == (2 * a + b) \div (2 * b)

\* DynamicImage::resize(nwidth, nheight, FilterType::Nearest): the image
\* scaled, its aspect ratio kept, to the largest size within the bounds and
\* never below 1 x 1.  rep is the factor each source pixel is repeated by,
\* 0 when the new sides are no common multiple of the old.
ResizeWithin(img, nwidth, nheight) ==
    LET w  == img.width
        h  == img.height
        byW == FracLeq(nwidth, w, nheight, h)
        nw == IF byW THEN nwidth
              ELSE w * (nheight \div h) + RoundDiv(w * (nheight % h), h)
        nh == IF byW THEN h * (nwidth \div w) + RoundDiv(h * (nwidth % w), w)
              ELSE nheight
        k  == nw \div w
    IN  [width  |-> Max(nw, 1),
         height |-> Max(nh, 1),
         pixels |-> [of  |-> img.pixels.of,
                     rep |-> IF k >= 1 /\ nw = w * k /\ nh = h * k
                             THEN img.pixels.rep * k ELSE 0]]

\* upscale_image with a scale the path parser returned (a u32 in halves).
\* w * scale and h * scale are u32 products: with overflow checks a product
\* that overflows panics, without them it wraps.
UpscaleImageBuild(img, scale, checked) ==
    LET nwidth  == WrappingMul(U32(img.width), scale)
        nheight == WrappingMul(U32(img.height), scale)
    IN  IF checked /\ (MulOverflows(U32(img.width), scale)
                       \/ MulOverflows(U32(img.height), scale))
        THEN Panic
        ELSE Ok(ResizeWithin(img, U32Val(nwidth), U32Val(nheight)))

\* The key of the pre-generated 2x derivative in place of the base key.
BaseKeyOfDerivative(hash) == UpscaledStem(hash, 2) \o <<".", "p", "n", "g">>

\* The base key generate_upscaled_image reads: format!("{}.png", parts.hash).
BaseKey(hash) == hash \o <<".", "p", "n", "g">>

\* A get that names the missing image in its 404.
BucketGetNamed(bucket, key) ==
    IF bucket.io = "get_err" THEN Err(ApiErrorNoMsg(500))
    ELSE IF key \notin DOMAIN bucket.objects
    THEN Err(ApiErrorNew(404, <<"Image not found">>))
    ELSE IF bucket.io = "no_body" THEN Err(ApiErrorNoMsg(500))
    ELSE IF bucket.io = "read_err" THEN Err(ApiErrorNoMsg(500))
    ELSE Ok(bucket.objects[key].data)

\* Bucket::get(key).execute() and the read of the object's body.  bucket is
\* [objects, io]: the objects stored and what the operation meets, "ok",
\* "get_err" (the get fails), "no_body" or "read_err".
BucketGet(bucket, key) ==
    IF bucket.io = "get_err" THEN Err(ApiErrorNoMsg(500))
    ELSE IF key \notin DOMAIN bucket.objects THEN Err(ApiErrorNoMsg(404))
    ELSE IF bucket.io = "no_body" THEN Err(ApiErrorNoMsg(500))
    ELSE IF bucket.io = "read_err" THEN Err(ApiErrorNoMsg(500))
    ELSE Ok(bucket.objects[key].data)

\* generate_upscaled_image: [reads, res], the keys it reads from the bucket
\* and the bytes or the error it returns.  encodes: whether encode_image
\* succeeds.
GenerateUpscaledImage(req_path, bucket, encodes, checked) ==
    Bind(MatchReqPath(req_path), LAMBDA parts :
    IF ~parts.some THEN [reads |-> <<>>, res |-> Err(ApiErrorNoMsg(404))]
    ELSE IF parts.val.ext # <<"p", "n", "g">>
    THEN [reads |-> <<>>, res |-> Err(ApiErrorNoMsg(404))]
    ELSE Bind(BaseKey(parts.val.hash), LAMBDA key :
         Bind(BucketGet(bucket, key), LAMBDA src_img_data :
         [reads |-> <<key>>,
          res |->
            IF ~src_img_data.ok THEN src_img_data
            ELSE Bind(LoadStored(src_img_data.val, "png"), LAMBDA src_img :
                 IF ~src_img.ok THEN Err(ApiErrorNoMsg(500))
                 ELSE Bind(IF parts.val.scale = U32(1) THEN Ok(src_img.val)
                           ELSE UpscaleImageBuild(src_img.val, parts.val.scale, checked),
                           LAMBDA upscaled_img :
                      IF IsPanic(upscaled_img) THEN Panic
                      ELSE IF ~encodes THEN Err(ApiErrorNoMsg(500))
                      ELSE Ok(EncodeImage(upscaled_img.val, "png"))))])))

\* Response::from_bytes(img_data) with the headers handle sets.
FromBytes(img_data) ==
    [status  |-> 200, cors |-> FALSE,
     headers |-> [content_type |-> "image/png",
                  cache_control |-> "public, max-age=31536000"],
     body    |-> [kind |-> "bytes", data |-> img_data]]

\* handle without the method check.
HandleLookupAnyMethod(request, cached) ==
    IF ~request.env_bucket THEN [returned |-> TRUE, res |-> Err(ApiErrorNoMsg(500))]
    ELSE IF ~cached.ok THEN [returned |-> TRUE, res |-> Err(ApiErrorNoMsg(500))]
    ELSE IF cached.val.some THEN [returned |-> TRUE, res |-> Ok(cached.val.val)]
    ELSE [returned |-> FALSE, res |-> Ok(<<>>)]

\* handle with a failed cache lookup taken for a miss.
HandleLookupBestEffort(request, cached) ==
    IF request.method # "GET" THEN [returned |-> TRUE, res |-> Err(ApiErrorNoMsg(405))]
    ELSE IF ~request.env_bucket THEN [returned |-> TRUE, res |-> Err(ApiErrorNoMsg(500))]
    ELSE IF ~cached.ok THEN [returned |-> FALSE, res |-> Ok(<<>>)]
    ELSE IF cached.val.some THEN [returned |-> TRUE, res |-> Ok(cached.val.val)]
    ELSE [returned |-> FALSE, res |-> Ok(<<>>)]

\* handle up to the cache lookup.  cached is the result of cache.get:
\* Err, Ok(None) or Ok(Some(response)).  [returned, res]: whether handle
\* returns here and what with.
HandleLookup(request, cached) ==
    IF request.method # "GET" THEN [returned |-> TRUE, res |-> Err(ApiErrorNoMsg(405))]
    ELSE IF ~request.env_bucket THEN [returned |-> TRUE, res |-> Err(ApiErrorNoMsg(500))]
    ELSE IF ~cached.ok THEN [returned |-> TRUE, res |-> Err(ApiErrorNoMsg(500))]
    ELSE IF cached.val.some THEN [returned |-> TRUE, res |-> Ok(cached.val.val)]
    ELSE [returned |-> FALSE, res |-> Ok(<<>>)]

\* handle after a cache miss: [reads, res, put], put the response it hands
\* to ctx.wait_until for cache.put, if any.
HandleGenerate(request, bucket, encodes, checked) ==
    Bind(GenerateUpscaledImage(request.path, bucket, encodes, checked), LAMBDA gen :
    IF IsPanic(gen.res) THEN [reads |-> gen.reads, res |-> Panic, put |-> None]
    ELSE IF ~gen.res.ok THEN [reads |-> gen.reads, res |-> gen.res, put |-> None]
    ELSE [reads |-> gen.reads,
          res   |-> Ok(FromBytes(gen.res.val)),
          put   |-> Some(FromBytes(gen.res.val))])

\* dyn: fetch, the response sent for the result of handle.
DynFetch(res) ==
    IF IsPanic(res) THEN Panicked
    ELSE IF res.ok THEN res.val
    ELSE ToResponse(res.err)

\* handle as a whole, for one request and one state of its collaborators.
Handle(request, cached, bucket, encodes, checked) ==
    LET first == HandleLookup(request, cached) IN
    IF first.returned
    THEN [reads |-> <<>>, res |-> first.res, put |-> None]
    ELSE HandleGenerate(request, bucket, encodes, checked)

----------------------------------------------------------------------------
\* State

NoRequest == [worker |-> "none"]
NoResponse == [status |-> 0]
NoProbe == [fn |-> "none"]

Init ==
    /\ pc = [r \in Requests |-> "idle"]
    /\ req = [r \in Requests |-> NoRequest]
    /\ inflight = [r \in Requests |-> {}]
    /\ outputs = [r \in Requests |-> <<>>]
    /\ resp = [r \in Requests |-> NoResponse]
    /\ store = <<>>
    /\ decoded = {}
    /\ probe = NoProbe
    /\ dynPc = "idle"
    /\ dynReq = NoRequest
    /\ dynResp = NoResponse
    /\ reads = <<>>
    /\ cache = <<>>
    /\ waitUntil = {}

\* The first poll of join_all: every future encodes its image and, unless
\* that fails (the futures in broken), issues its put.
RECURSIVE FirstPoll(_, _, _)
FirstPoll(outs, broken, i) ==
    IF i > Len(outs) THEN outs
    ELSE FirstPoll(IF i \in broken THEN JoinAllOutput(outs, i, Err(<<>>)) ELSE outs,
                   broken, i + 1)

Launch(r, request, futs, broken) ==
    /\ pc' = [pc EXCEPT ![r] = "uploading"]
    /\ req' = [req EXCEPT ![r] = request]
    /\ inflight' = [inflight EXCEPT ![r] = (1..Len(futs)) \ broken]
    /\ outputs' = [outputs EXCEPT ![r] = FirstPoll([i \in 1..Len(futs) |-> None], broken, 1)]
    /\ UNCHANGED <<resp, store, probe, dynVars>>

Answer(r, request, response) ==
    /\ pc' = [pc EXCEPT ![r] = "done"]
    /\ req' = [req EXCEPT ![r] = request]
    /\ resp' = [resp EXCEPT ![r] = response]
    /\ UNCHANGED <<inflight, outputs, store, probe, dynVars>>

\* Requests are taken in the order of their numbers.
Arrives(r) == pc[r] = "idle" /\ \A q \in 1..(r - 1) : pc[q] # "idle"

\* api: handle_post_image receives a request and runs post_image up to the
\* await of upload_all, or to the error it answers with.
PostImageOf(r, requests) ==
    /\ Arrives(r)
    /\ \E request \in requests, checked \in BOOLEAN :
          LET got == PostImageSync(request, checked) IN
          /\ decoded' = IF got.decoded THEN decoded \cup {r} ELSE decoded
          /\ IF IsPanic(got.res) THEN Answer(r, request, Panicked)
             ELSE IF ~got.res.ok THEN Answer(r, request, WithCors(ToResponse(got.res.err)))
             ELSE \E broken \in SUBSET (1..Len(UploadAll(got.res.val))) :
                     Launch(r, request, UploadAll(got.res.val), broken)

PostImage(r) == PostImageOf(r, ApiRequests)

\* A put issued by future i of request r completes: the object is stored.
PutOk(r, i) ==
    /\ pc[r] = "uploading"
    /\ i \in inflight[r]
    /\ LET fut == Futures(req[r])[i] IN
       /\ store' = BucketPut(store, fut.key, fut.object)
       /\ outputs' = [outputs EXCEPT ![r] = JoinAllOutput(@, i, Ok(fut.uploaded))]
    /\ inflight' = [inflight EXCEPT ![r] = @ \ {i}]
    /\ UNCHANGED <<pc, req, resp, decoded, probe, dynVars>>

\* A put issued by future i of request r fails: nothing is stored.
PutErr(r, i) ==
    /\ pc[r] = "uploading"
    /\ i \in inflight[r]
    /\ outputs' = [outputs EXCEPT ![r] = JoinAllOutput(@, i, Err(<<>>))]
    /\ inflight' = [inflight EXCEPT ![r] = @ \ {i}]
    /\ UNCHANGED <<pc, req, resp, store, decoded, probe, dynVars>>

\* An upload_all that returns at the first error (try_join_all), while
\* other puts are in flight.
RespondEarly(r) ==
    /\ pc[r] = "uploading"
    /\ req[r].worker = "api"
    /\ \/ inflight[r] = {}
       \/ \E i \in 1..Len(outputs[r]) : outputs[r][i].some /\ ~outputs[r][i].val.ok
    /\ resp' = [resp EXCEPT ![r] =
                   WithCors(IF \A i \in 1..Len(outputs[r]) :
                                   outputs[r][i].some /\ outputs[r][i].val.ok
                            THEN FromJson(Collect(outputs[r]).val)
                            ELSE ToResponse(ApiErrorNoMsg(500)))]
    /\ pc' = [pc EXCEPT ![r] = "done"]
    /\ outputs' = [outputs EXCEPT ![r] = <<>>]
    /\ UNCHANGED <<req, inflight, store, decoded, probe, dynVars>>

\* api: join_all has every output; upload_all collects them, post_image maps
\* an error to 500 and handle_post_image answers.
Respond(r) ==
    /\ pc[r] = "uploading"
    /\ req[r].worker = "api"
    /\ inflight[r] = {}
    /\ LET upload_res == Collect(outputs[r]) IN
       resp' = [resp EXCEPT ![r] =
                   WithCors(IF upload_res.ok THEN FromJson(upload_res.val)
                            ELSE ToResponse(ApiErrorNoMsg(500)))]
    /\ pc' = [pc EXCEPT ![r] = "done"]
    /\ outputs' = [outputs EXCEPT ![r] = <<>>]
    /\ UNCHANGED <<req, inflight, store, decoded, probe, dynVars>>

Next ==
    \E r \in Requests :
        \/ PostImage(r)
        \/ \E i \in 1..Len(Scales) : PutOk(r, i)
        \/ \E i \in 1..Len(Scales) : PutErr(r, i)
        \/ Respond(r)

Spec == Init /\ [][Next]_vars

\* The same with the scheduling the runtime gives: a handler whose join_all
\* has every output is polled again.
SpecLive == Init /\ [][Next]_vars /\ \A r \in Requests : WF_vars(Respond(r))

----------------------------------------------------------------------------
\* The root crate's worker

RootHandlePostImage(r) ==
    /\ Arrives(r)
    /\ UNCHANGED decoded
    /\ \E request \in RootRequests :
          LET got == RootHandlePostImageSync(request) IN
          IF ~got.ok THEN Answer(r, request, got.err)
          ELSE \E broken \in SUBSET (1..Len(Scales)) :
                  Launch(r, request, RootTasks(got.val), broken)

\* root: join_all has every output; 201 when all are Ok, 500 otherwise.
RootRespond(r) ==
    /\ pc[r] = "uploading"
    /\ req[r].worker = "root"
    /\ inflight[r] = {}
    /\ LET task_res == Collect(outputs[r]) IN
       resp' = [resp EXCEPT ![r] =
                   IF task_res.ok
                   THEN [status |-> 201, cors |-> FALSE, body |-> [kind |-> "empty"]]
                   ELSE ResponseError("Internal Server Error", 500)]
    /\ pc' = [pc EXCEPT ![r] = "done"]
    /\ outputs' = [outputs EXCEPT ![r] = <<>>]
    /\ UNCHANGED <<req, inflight, store, decoded, probe, dynVars>>

RootNext ==
    \E r \in Requests :
        \/ RootHandlePostImage(r)
        \/ \E i \in 1..Len(Scales) : PutOk(r, i)
        \/ \E i \in 1..Len(Scales) : PutErr(r, i)
        \/ RootRespond(r)

SpecRoot == Init /\ [][RootNext]_vars

----------------------------------------------------------------------------
\* The pure functions, applied to inputs drawn from bounded sets

NotAHash == <<"n", "o", "t", "a", "h", "a", "s", "h">>

HashSamples ==
    {HASH,
     Sha256Hex(Bmp512),
     SubSeq(HASH, 1, HashLen - 1),
     HASH \o <<"0">>,
     [HASH EXCEPT ![2] = "E"],
     [HASH EXCEPT ![2] = "g"],
     NotAHash}

ScaleSamples ==
    {<<>>,
     <<"_", "1", "x">>,
     <<"_", "2", "x">>,
     <<"_", "1", "6", "x">>,
     <<"_", "0", "0", "7", "x">>,
     <<"_", "0", "x">>,
     <<"_", "6", "5", "5", "3", "6", "x">>,
     <<"_", "4", "2", "9", "4", "9", "6", "7", "2", "9", "5", "x">>,
     <<"_", "4", "2", "9", "4", "9", "6", "7", "2", "9", "6", "x">>,
     <<"_", "0", "4", "2", "9", "4", "9", "6", "7", "2", "9", "5", "x">>,
     <<"_", "9", "9", "9", "9", "9", "9", "9", "9", "9", "9", "9", "x">>,
     <<"_", "x">>,
     <<"_", "a", "x">>,
     <<"_", "2", "X">>,
     <<"_", "2">>,
     <<"2", "x">>,
     <<"_", "2", "x", "_", "2", "x">>}

ExtSamples ==
    {<<".", "p", "n", "g">>,
     <<".", "j", "p", "g">>,
     <<".", "p">>,
     <<".", "P", "N", "G">>,
     <<".", "p", "1", "g">>,
     <<".", "p", "n", "g", "/">>,
     <<"p", "n", "g">>,
     <<".">>,
     <<>>}

PathSamples ==
    {pre \o h \o sx \o ext :
        pre \in {<<"/">>, <<>>, <<"/", "/">>}, h \in HashSamples,
        sx \in ScaleSamples, ext \in ExtSamples}

DimSamples == {1, 4, 16, 17, 64, 255, 256, 257, 300, 1024, 1025, 4096, 65536, 65537}

\* Each behaviour applies one function to one input.
ProbeMatchReqPath ==
    /\ probe = NoProbe
    /\ \E path \in PathSamples :
          probe' = [fn |-> "match_req_path", in |-> path, out |-> MatchReqPath(path)]
    /\ UNCHANGED <<pc, req, inflight, outputs, resp, store, decoded, dynVars>>

ProbeValidateImgDimension ==
    /\ probe = NoProbe
    /\ \E w \in DimSamples, h \in DimSamples, checked \in BOOLEAN :
          probe' = [fn  |-> "validate_img_dimension",
                    in  |-> [width |-> w, height |-> h, checked |-> checked],
                    out |-> ValidateImgDimension([width |-> w, height |-> h], checked)]
    /\ UNCHANGED <<pc, req, inflight, outputs, resp, store, decoded, dynVars>>

ProbePostImage ==
    /\ probe = NoProbe
    /\ \E request \in IngestSamples, checked \in BOOLEAN :
          probe' = [fn  |-> "post_image",
                    in  |-> [request |-> request, checked |-> checked],
                    out |-> PostImageSync(request, checked)]
    /\ UNCHANGED <<pc, req, inflight, outputs, resp, store, decoded, dynVars>>

\* The images upscale_image is applied to and the scales it is given.
ImageSamples ==
    {[width |-> 256, height |-> 256, pixels |-> [of |-> 1, rep |-> 1]],
     [width |-> 512, height |-> 32, pixels |-> [of |-> 3, rep |-> 1]],
     [width |-> 1, height |-> 1024, pixels |-> [of |-> 6, rep |-> 1]]}

UpscaleSamples ==
    {U32(1), U32(2), U32(4), U32(8), U32(16), U32(65536),
     [hi |-> 256, lo |-> 0], [hi |-> 256, lo |-> 1]}

ProbeUpscaleImage ==
    /\ probe = NoProbe
    /\ \E img \in ImageSamples, scale \in UpscaleSamples, checked \in BOOLEAN :
          probe' = [fn  |-> "upscale_image",
                    in  |-> [img |-> img, scale |-> scale, checked |-> checked],
                    out |-> UpscaleImageBuild(img, scale, checked)]
    /\ UNCHANGED <<pc, req, inflight, outputs, resp, store, decoded, dynVars>>

\* The objects an ingest of Bmp512 (512 x 32, two scales) writes, and the
\* buckets holding some of them.
BmpFutures == Futures(RawRequest("api", Some(Mime("image", "bmp")), Bmp512))

BmpHash == Sha256Hex(Bmp512)

StoreOf(futs, written) ==
    [k \in {futs[i].key : i \in written} |->
        futs[CHOOSE i \in written : futs[i].key = k].object]

\* An object another writer left at the base key: not a PNG.
ForeignObject ==
    BucketObject(EncodeImage([width |-> 512, height |-> 32,
                              pixels |-> [of |-> 3, rep |-> 1]], "jpeg"), "jpeg")

BucketSamples ==
    {StoreOf(BmpFutures, written) : written \in SUBSET {1, 2}}
    \cup {[k \in {BaseKey(BmpHash)} |-> ForeignObject]}

DynPathSamples ==
    {<<"/">> \o BmpHash \o sx \o <<".", "p", "n", "g">> :
        sx \in {<<>>, <<"_", "2", "x">>, <<"_", "1", "6", "x">>, <<"_", "0", "x">>,
                <<"_", "1", "6", "7", "7", "7", "2", "1", "7", "x">>, <<"_", "4", "2", "9", "4", "9", "6", "7", "2", "9", "6", "x">>}}
    \cup {<<"/">> \o BmpHash \o <<".", "j", "p", "g">>,
          <<"/">> \o HASH \o <<"_", "2", "x", ".", "p", "n", "g">>,
          <<"/">> \o NotAHash \o <<"_", "2", "x", ".", "p", "n", "g">>}

DynRequest(method, path) == [method |-> method, path |-> path, env_bucket |-> TRUE]

\* The results of cache.get.
CachedSamples ==
    {Err(<<>>), Ok(None),
     Ok(Some(FromBytes(BmpFutures[1].object.data)))}

ProbeHandle ==
    /\ probe = NoProbe
    /\ \E method \in {"GET", "POST"}, path \in DynPathSamples, env_bucket \in BOOLEAN,
          cached \in CachedSamples, objects \in BucketSamples,
          io \in {"ok", "get_err", "no_body", "read_err"},
          encodes \in BOOLEAN, checked \in BOOLEAN :
          LET request == [DynRequest(method, path) EXCEPT !.env_bucket = env_bucket]
              bucket  == [objects |-> objects, io |-> io]
          IN  \E out \in {Handle(request, cached, bucket, encodes, checked)} :
              probe' = [fn  |-> "handle",
                        in  |-> [request |-> request, cached |-> cached, bucket |-> bucket,
                                 encodes |-> encodes, checked |-> checked],
                        out |-> [reads |-> out.reads, put |-> out.put,
                                 response |-> DynFetch(out.res)]]
    /\ UNCHANGED <<pc, req, inflight, outputs, resp, store, decoded, dynVars>>

FnNext ==
    \/ ProbeMatchReqPath
    \/ ProbeValidateImgDimension
    \/ ProbePostImage
    \/ ProbeUpscaleImage
    \/ ProbeHandle

SpecFn == Init /\ [][FnNext]_vars

----------------------------------------------------------------------------
\* The two workers over one bucket: ingests of one image, and retrievals
\* answered through the cache

DynIngests == {RawRequest("api", Some(Mime("image", "bmp")), Bmp512)}

\* An ingest arrives once the ingests before it have been answered.
DynPostImage(r) ==
    /\ \A q \in 1..(r - 1) : pc[q] = "done"
    /\ PostImageOf(r, DynIngests)

\* The paths of the image the ingests store, at scale 1 and at scale 2.
BmpPath == <<"/">> \o BmpHash \o <<".", "p", "n", "g">>

Bmp2xPath == <<"/">> \o BmpHash \o <<"_", "2", "x", ".", "p", "n", "g">>

\* The retrievals sent, each with what it meets: whether cache.get
\* succeeds, and how the bucket behaves when it is read.
DynRequests ==
    {[request |-> DynRequest("GET", BmpPath), cache_get |-> "ok", io |-> "ok"],
     [request |-> DynRequest("GET", Bmp2xPath), cache_get |-> "ok", io |-> "ok"],
     [request |-> DynRequest("GET", BmpPath), cache_get |-> "err", io |-> "ok"],
     [request |-> DynRequest("GET", BmpPath), cache_get |-> "ok", io |-> "get_err"],
     [request |-> DynRequest("GET", <<"/">> \o NotAHash \o <<"_", "2", "x", ".", "p", "n", "g">>),
      cache_get |-> "ok", io |-> "ok"],
     [request |-> DynRequest("POST", BmpPath), cache_get |-> "ok", io |-> "ok"]}

\* cache.get(&req): the entry stored under the request's URL, if any.
CacheGet(entries, met) ==
    IF met.cache_get = "err" THEN Err(<<>>)
    ELSE IF met.request.path \in DOMAIN entries THEN Ok(Some(entries[met.request.path]))
    ELSE Ok(None)

\* A put keyed by the hash alone, whatever scale the path asks for.
CachePutIgnoringScale(entries, path, response) ==
    [p \in DOMAIN entries \cup {SubSeq(path, 1, HashLen + 1) \o <<".", "p", "n", "g">>} |->
        IF p = SubSeq(path, 1, HashLen + 1) \o <<".", "p", "n", "g">>
        THEN response ELSE entries[p]]

\* cache.put(&req, response).
CachePut(entries, path, response) ==
    [p \in DOMAIN entries \cup {path} |-> IF p = path THEN response ELSE entries[p]]

\* A retrieval arrives and runs up to the cache lookup; it is answered there
\* unless the lookup misses.
DynLookup ==
    /\ dynPc \in {"idle", "done"}
    /\ \E met \in DynRequests :
          LET first == HandleLookup(met.request, CacheGet(cache, met)) IN
          /\ dynReq' = met
          /\ reads' = <<>>
          /\ IF first.returned
             THEN /\ dynPc' = "done"
                  /\ dynResp' = DynFetch(first.res)
             ELSE /\ dynPc' = "generating"
                  /\ dynResp' = NoResponse
    /\ UNCHANGED <<pc, req, inflight, outputs, resp, store, decoded, probe, cache, waitUntil>>

\* After a miss: the image is generated from the bucket as it is now, the
\* response is built, and the cache put of its clone is handed to wait_until.
DynGenerate ==
    /\ dynPc = "generating"
    /\ \E checked \in BOOLEAN :
       \E out \in {HandleGenerate(dynReq.request, [objects |-> store, io |-> dynReq.io],
                                  TRUE, checked)} :
          /\ dynResp' = DynFetch(out.res)
          /\ reads' = out.reads
          /\ waitUntil' = IF out.put.some
                          THEN waitUntil \cup {[path |-> dynReq.request.path,
                                                response |-> out.put.val]}
                          ELSE waitUntil
    /\ dynPc' = "done"
    /\ UNCHANGED <<pc, req, inflight, outputs, resp, store, decoded, probe, dynReq, cache>>

\* A cache put handed to wait_until completes.
WaitUntilPutOk(w) ==
    /\ w \in waitUntil
    /\ cache' = CachePut(cache, w.path, w.response)
    /\ waitUntil' = waitUntil \ {w}
    /\ UNCHANGED <<pc, req, inflight, outputs, resp, store, decoded, probe,
                   dynPc, dynReq, dynResp, reads>>

\* A failed cache put that reaches the client as a 500.
WaitUntilPutErrFailsRequest(w) ==
    /\ w \in waitUntil
    /\ waitUntil' = waitUntil \ {w}
    /\ dynResp' = ToResponse(ApiErrorNoMsg(500))
    /\ UNCHANGED <<pc, req, inflight, outputs, resp, store, decoded, probe,
                   dynPc, dynReq, reads, cache>>

\* A cache put handed to wait_until fails: the failure is logged.
WaitUntilPutErr(w) ==
    /\ w \in waitUntil
    /\ waitUntil' = waitUntil \ {w}
    /\ UNCHANGED <<pc, req, inflight, outputs, resp, store, decoded, probe,
                   dynPc, dynReq, dynResp, reads, cache>>

DynNext ==
    \/ \E r \in Requests :
          \/ DynPostImage(r)
          \/ \E i \in 1..Len(Scales) : PutOk(r, i)
          \/ \E i \in 1..Len(Scales) : PutErr(r, i)
          \/ Respond(r)
    \/ DynLookup
    \/ DynGenerate
    \/ \E w \in waitUntil : WaitUntilPutOk(w)
    \/ \E w \in waitUntil : WaitUntilPutErr(w)

SpecDyn == Init /\ [][DynNext]_vars

----------------------------------------------------------------------------
\* What the claims speak of, stated without the workers' code

\* The bytes a request carries, if it carries any.
HasPayload(request) ==
    request.body.kind = "raw" \/ request.body.file.kind = "file"

ClaimPayload(request) ==
    IF request.body.kind = "raw" THEN request.body.data ELSE request.body.file.data

\* The content type that declares the format of the bytes.
ClaimDeclared(request) ==
    IF ~request.content_type.some THEN None
    ELSE IF request.body.kind = "raw" THEN request.content_type
    ELSE IF request.body.file.kind = "file" THEN Some(request.body.file.type)
    ELSE None

ClaimFormatOK(declared) ==
    /\ declared.some
    /\ declared.val.type = "image"
    /\ ~declared.val.params
    /\ declared.val.subtype \in {"png", "webp", "bmp", "gif"}

ClaimLong(p) == IF p.width > p.height THEN p.width ELSE p.height
ClaimShort(p) == IF p.width > p.height THEN p.height ELSE p.width

\* The first geometry rule an image of these sides violates; w * h > 65536
\* over the integers is w > 65536 \div h.
ClaimGeometry(p) ==
    IF p.width > 65536 \div p.height THEN "pixels"
    ELSE IF ClaimLong(p) > 1024 THEN "long"
    ELSE IF ClaimLong(p) > 16 * ClaimShort(p) THEN "aspect"
    ELSE "ok"

\* The longest prefix of [1, 2, 4, 8, 16] whose members s satisfy long * s <= 1024.
ClaimPyramid(long) ==
    LET all == <<1, 2, 4, 8, 16>>
        n   == CHOOSE n \in 0..5 :
                   /\ \A i \in 1..n : long * all[i] <= 1024
                   /\ n < 5 => long * all[n + 1] > 1024
    IN  SubSeq(all, 1, n)

ClaimDecimal(scale) ==
    CASE scale = 2  -> <<"2">>
      [] scale = 4  -> <<"4">>
      [] scale = 8  -> <<"8">>
      [] scale = 16 -> <<"1", "6">>

\* `h.png` for scale 1 and `h_{s}x.png` for a scale s > 1.
ClaimKey(hash, scale) ==
    IF scale = 1 THEN hash \o <<".", "p", "n", "g">>
    ELSE hash \o <<"_">> \o ClaimDecimal(scale) \o <<"x", ".", "p", "n", "g">>

\* The PNG object holding the image of payload p scaled by s.
ClaimObject(p, scale) ==
    [data |-> [enc |-> "png",
               img |-> [width |-> p.width * scale, height |-> p.height * scale,
                        pixels |-> [of |-> p.id, rep |-> scale]]],
     content_type |-> [type |-> "image", subtype |-> "png", params |-> FALSE]]

\* The records of a successful ingest of payload p: one per scale of its
\* pyramid, ascending.
ClaimRecords(p) ==
    LET pyramid == ClaimPyramid(ClaimLong(p)) IN
    [i \in 1..Len(pyramid) |->
        [name   |-> ClaimKey(Sha256Hex(p), pyramid[i]),
         scale  |-> pyramid[i],
         width  |-> p.width * pyramid[i],
         height |-> p.height * pyramid[i]]]

LaunchedScales(request) ==
    [i \in 1..Len(Futures(request)) |-> Futures(request)[i].scale]

\* The status of a Result<_, ApiError>: 0 for Ok, -1 for a panic.
StatusOf(res) == IF IsPanic(res) THEN -1 ELSE IF res.ok THEN 0 ELSE res.err.status

----------------------------------------------------------------------------
\* C1: the scale factors an ingest launches a write for are exactly the
\* longest prefix of [1, 2, 4, 8, 16] whose members s satisfy L * s <= 1024,
\* L the longer side of the image.  (Stated of the root crate's worker under
\* SpecRoot, where it fails: that worker launches all five.)
C1_TruncatedPyramid ==
    \A r \in Requests :
        pc[r] = "uploading" =>
            LaunchedScales(req[r]) = ClaimPyramid(ClaimLong(ClaimPayload(req[r])))

\* C2: every key an ingest with content hash h writes is `h.png` for scale 1
\* and `h_{s}x.png` for a scale s > 1, and no two futures of one ingest
\* target the same key.
C2_KeysNamedAndDistinct ==
    /\ \A r \in Requests :
          pc[r] = "uploading" =>
              LET futs == Futures(req[r])
                  hash == Sha256Hex(ClaimPayload(req[r]))
              IN  /\ \A i \in 1..Len(futs) : futs[i].key = ClaimKey(hash, futs[i].scale)
                  /\ \A i, j \in 1..Len(futs) : i # j => futs[i].key # futs[j].key
    /\ \A k \in DOMAIN store :
          \E r \in Requests :
              /\ pc[r] # "idle"
              /\ HasPayload(req[r])
              /\ \E scale \in {1, 2, 4, 8, 16} :
                    k = ClaimKey(Sha256Hex(ClaimPayload(req[r])), scale)

\* Two puts of one ingest have both landed, at different keys.
C2_TwoWritesLanded ==
    \E r \in Requests :
        /\ pc[r] = "uploading"
        /\ \E i, j \in 1..Len(outputs[r]) :
              /\ i # j
              /\ outputs[r][i].some /\ outputs[r][i].val.ok
              /\ outputs[r][j].some /\ outputs[r][j].val.ok
              /\ outputs[r][i].val.val.name \in DOMAIN store
              /\ outputs[r][j].val.val.name \in DOMAIN store
              /\ outputs[r][i].val.val.name # outputs[r][j].val.val.name

\* C3: a successful ingest returns exactly one record per scale of the
\* pyramid, ascending, whatever the order the puts completed in; the record
\* for scale s has the key written for s and the sides (width*s, height*s);
\* while the puts complete, slot i holds the record of the i-th scale.
C3_RecordsAscending ==
    \A r \in Requests :
        LET p == ClaimPayload(req[r]) IN
        /\ (pc[r] = "done" /\ resp[r].status = 200) =>
              /\ resp[r].body.kind = "json_images"
              /\ resp[r].body.images = ClaimRecords(p)
        /\ pc[r] = "uploading" =>
              \A i \in 1..Len(outputs[r]) :
                  (outputs[r][i].some /\ outputs[r][i].val.ok) =>
                      /\ outputs[r][i].val.val = ClaimRecords(p)[i]
                      /\ store[ClaimRecords(p)[i].name] = ClaimObject(p, ClaimRecords(p)[i].scale)

\* An ingest of a two-scale pyramid has returned its two records.
C3_BothRecords ==
    \E r \in Requests :
        /\ pc[r] = "done"
        /\ resp[r].status = 200
        /\ Len(resp[r].body.images) = 2

\* C4: when any encode or put of an ingest has failed, the ingest answers
\* 500 with no list of records; and no step removes or changes an object of
\* the store, so what the other futures wrote stays.
C4_FailsAsAWhole ==
    [][\A r \in Requests :
          /\ (/\ pc[r] = "uploading"
              /\ pc'[r] = "done"
              /\ \E i \in 1..Len(outputs[r]) : outputs[r][i].some /\ ~outputs[r][i].val.ok)
             => (resp'[r].status = 500 /\ resp'[r].body.kind = "empty")
          /\ \A k \in DOMAIN store : k \in DOMAIN store' /\ store'[k] = store[k]]_vars

\* The only ingest so far has failed as a whole and one of its objects is
\* in the store.
C4_FailedWithOrphan ==
    \E r \in Requests :
        /\ \A q \in Requests \ {r} : pc[q] = "idle"
        /\ pc[r] = "done"
        /\ resp[r].status = 500
        /\ resp[r].body.kind = "empty"
        /\ HasPayload(req[r])
        /\ \E scale \in {1, 2, 4} :
              ClaimKey(Sha256Hex(ClaimPayload(req[r])), scale) \in DOMAIN store

\* C5: after a successful ingest, an ingest of the same bytes declared the
\* same way, over either transport, is not rejected (it answers 200, or 500
\* when a put failed), returns the same records when it succeeds, and every
\* key of the records keeps naming the bytes the first ingest stored.
C5_Idempotent ==
    \A r1 \in Requests :
        (pc[r1] = "done" /\ resp[r1].status = 200) =>
            /\ \A i \in 1..Len(resp[r1].body.images) :
                  LET rec == resp[r1].body.images[i] IN
                  /\ rec.name \in DOMAIN store
                  /\ store[rec.name] = ClaimObject(ClaimPayload(req[r1]), rec.scale)
            /\ \A r2 \in Requests \ {r1} :
                  (/\ pc[r2] = "done"
                   /\ HasPayload(req[r2])
                   /\ ClaimPayload(req[r2]) = ClaimPayload(req[r1])
                   /\ ClaimDeclared(req[r2]) = ClaimDeclared(req[r1]))
                  => /\ resp[r2].status \in {200, 500}
                     /\ resp[r2].status = 200 => resp[r2].body = resp[r1].body

\* The same bytes were ingested over both transports, both successfully.
C5_BothTransports ==
    \E r1, r2 \in Requests :
        /\ pc[r1] = "done" /\ resp[r1].status = 200
        /\ pc[r2] = "done" /\ resp[r2].status = 200
        /\ req[r1].body.kind = "raw"
        /\ req[r2].body.kind = "form"
        /\ ClaimPayload(req[r1]) = ClaimPayload(req[r2])

\* C6: geometry validation reports the first rule violated, in the order
\* pixel count (w*h > 65536), long side (> 1024), aspect ratio (> 16), each
\* as a 400, and accepts exactly when none is violated.
C6_GeometryOrder ==
    probe.fn = "validate_img_dimension" =>
        LET rule == ClaimGeometry(probe.in)
            out  == probe.out
        IN  /\ ~IsPanic(out)
            /\ out.ok <=> rule = "ok"
            /\ ~out.ok =>
                  /\ out.err.status = 400
                  /\ out.err.message.some
                  /\ out.err.message.val[1] =
                        (CASE rule = "pixels" -> "Image has too many pixels"
                           [] rule = "long"   -> "Long side of image is too long"
                           [] rule = "aspect" -> "Aspect retio of image is out of range"
                           [] OTHER           -> "")

\* Whether a validation step of the ingest rejects the request.
C7_Rejected(request) ==
    \/ ~request.content_type.some
    \/ ~ClaimFormatOK(ClaimDeclared(request))
    \/ ClaimPayload(request).len > 512 * 1024
    \/ ClaimPayload(request).enc # ClaimDeclared(request).val.subtype
    \/ ClaimPayload(request).fault = "corrupt"
    \/ ClaimGeometry(ClaimPayload(request)) # "ok"

\* C7: the step that takes a request a validation step rejects answers it
\* at once, not with a 200, and leaves the store as it was; an answered
\* request stays answered (it writes nothing later).
C7_NoWriteOnReject ==
    [][\A r \in Requests :
          /\ (pc[r] = "idle" /\ pc'[r] # "idle" /\ C7_Rejected(req'[r]))
             => (pc'[r] = "done" /\ resp'[r].status # 200 /\ store' = store)
          /\ pc[r] = "done" => (pc'[r] = "done" /\ inflight'[r] = {})]_vars

\* An oversized request was answered 413 while the store held objects.
C7_RejectedStoreKept ==
    \E r \in Requests :
        /\ pc[r] = "done"
        /\ C7_Rejected(req[r])
        /\ resp[r].status = 413
        /\ store # <<>>

ClaimHex == {"0", "1", "2", "3", "4", "5", "6", "7", "8", "9", "a", "b", "c", "d", "e", "f"}
ClaimDigit == {"0", "1", "2", "3", "4", "5", "6", "7", "8", "9"}
ClaimLower == {"a", "b", "c", "d", "e", "f", "g", "h", "i", "j", "k", "l", "m",
               "n", "o", "p", "q", "r", "s", "t", "u", "v", "w", "x", "y", "z"}

ClaimShapeAt(path, dot) ==
    /\ path[1] = "/"
    /\ \A i \in 2..65 : path[i] \in ClaimHex
    /\ path[dot] = "."
    /\ dot < Len(path)
    /\ \A i \in (dot + 1)..Len(path) : path[i] \in ClaimLower
    /\ \/ dot = 66
       \/ /\ dot >= 69
          /\ path[66] = "_"
          /\ path[dot - 1] = "x"
          /\ \A i \in 67..(dot - 2) : path[i] \in ClaimDigit

ClaimHasShape(path) == \E dot \in 66..Len(path) : ClaimShapeAt(path, dot)

ClaimDot(path) == CHOOSE dot \in 66..Len(path) : ClaimShapeAt(path, dot)

\* The digits of the suffix of a path of the shape (none without a suffix),
\* and the same without leading zeros.
ClaimDigits(path) == SubSeq(path, 67, ClaimDot(path) - 2)

RECURSIVE ClaimNoLeadingZeros(_)
ClaimNoLeadingZeros(ds) ==
    IF Len(ds) > 1 /\ Head(ds) = "0" THEN ClaimNoLeadingZeros(Tail(ds)) ELSE ds

\* ds <= 4294967295 for a digit string without leading zeros: it is shorter
\* than ten digits, or it has ten and is not behind "4294967295" in the
\* dictionary.
ClaimU32Max == <<"4", "2", "9", "4", "9", "6", "7", "2", "9", "5">>

ClaimDigitRank(c) == CHOOSE k \in 0..9 : DigitStr[k + 1] = c

ClaimFitsU32(ds) ==
    \/ Len(ds) < 10
    \/ /\ Len(ds) = 10
       /\ \/ ds = ClaimU32Max
          \/ \E i \in 1..10 :
                /\ \A j \in 1..(i - 1) : ds[j] = ClaimU32Max[j]
                /\ ClaimDigitRank(ds[i]) < ClaimDigitRank(ClaimU32Max[i])

\* C9 as stated: match_req_path matches exactly the paths of the shape,
\* whatever the digit string.
C9_EveryShapeMatches ==
    probe.fn = "match_req_path" => (probe.out.some <=> ClaimHasShape(probe.in))

\* C9: match_req_path matches exactly the paths of the shape whose digits,
\* if any, denote a value of at most 4294967295; on a match hash and ext are
\* the substrings of the path, and scale is 1 without a suffix and the value
\* of the digits with one.
C9_ShapeWithinU32 ==
    probe.fn = "match_req_path" =>
        LET path == probe.in
            out  == probe.out
        IN  /\ out.some <=>
                  /\ ClaimHasShape(path)
                  /\ ClaimFitsU32(ClaimNoLeadingZeros(ClaimDigits(path)))
            /\ out.some =>
                  /\ out.val.hash = SubSeq(path, 2, 65)
                  /\ out.val.ext = SubSeq(path, ClaimDot(path) + 1, Len(path))
                  /\ FormatU32(out.val.scale) =
                        (IF ClaimDot(path) = 66 THEN <<"1">>
                         ELSE ClaimNoLeadingZeros(ClaimDigits(path)))

\* A path whose digits denote 4294967295 has matched, with that scale.
C9_MatchedAtU32Max ==
    /\ probe.fn = "match_req_path"
    /\ ClaimHasShape(probe.in)
    /\ ClaimDigits(probe.in) = ClaimU32Max
    /\ probe.out.some
    /\ FormatU32(probe.out.val.scale) = ClaimU32Max

\* C10: what test_match_req_path asserts: the hash followed by `_2x.png`
\* and by `.png`, without a leading slash, match with that hash, ext "png"
\* and scale 2 and 1; `notahash_2x.png` and the hash followed by `_2x` do not
\* match.
C10_TestAssertions ==
    probe.fn = "match_req_path" =>
        /\ probe.in = HASH \o <<"_", "2", "x", ".", "p", "n", "g">> =>
              /\ probe.out.some
              /\ probe.out.val.hash = HASH
              /\ probe.out.val.scale = U32(2)
              /\ probe.out.val.ext = <<"p", "n", "g">>
        /\ probe.in = HASH \o <<".", "p", "n", "g">> =>
              /\ probe.out.some
              /\ probe.out.val.hash = HASH
              /\ probe.out.val.scale = U32(1)
              /\ probe.out.val.ext = <<"p", "n", "g">>
        /\ probe.in = NotAHash \o <<"_", "2", "x", ".", "p", "n", "g">> => ~probe.out.some
        /\ probe.in = HASH \o <<"_", "2", "x">> => ~probe.out.some

----------------------------------------------------------------------------
\* Retrieval, as the claims speak of it

\* Whether the KeyParser matches a path (the shape, digits within 32 bits).
ClaimParses(path) ==
    ClaimHasShape(path) /\ ClaimFitsU32(ClaimNoLeadingZeros(ClaimDigits(path)))

ClaimExt(path) == SubSeq(path, ClaimDot(path) + 1, Len(path))

\* `{hash}.png`, the scale-1 key of the hash a path names.
ClaimBaseKey(path) == SubSeq(path, 2, 65) \o <<".", "p", "n", "g">>

\* Whether fetching the base of a path meets a store-layer failure.
ClaimStoreFails(path, bucket) ==
    \/ bucket.io = "get_err"
    \/ /\ ClaimBaseKey(path) \in DOMAIN bucket.objects
       /\ bucket.io \in {"no_body", "read_err"}

\* The outcome of a retrieval after the method check, by the first of the
\* listed conditions that holds.
ClaimResolveStatus(in) ==
    LET path == in.request.path IN
    IF ~ClaimParses(path) THEN 404
    ELSE IF ClaimExt(path) # <<"p", "n", "g">> THEN 404
    ELSE IF ClaimStoreFails(path, in.bucket) THEN 500
    ELSE IF ClaimBaseKey(path) \notin DOMAIN in.bucket.objects THEN 404
    ELSE IF in.bucket.objects[ClaimBaseKey(path)].data.enc # "png" THEN 500
    ELSE IF ~in.encodes THEN 500
    ELSE 200

ClaimServedHeaders(response) ==
    response.status = 200 =>
        /\ response.headers.content_type = "image/png"
        /\ response.headers.cache_control = "public, max-age=31536000"
        /\ response.body.kind = "bytes"

\* Whether the upscale of a retrieval that reaches it overflows 32 bits:
\* side * scale >= 2^32 for a side of the base image.
ClaimSideOverflows(side, scale) ==
    side * scale.hi + ((side * scale.lo) \div 65536) >= 65536

ClaimUpscalePanics(in) ==
    LET path  == in.request.path
        img   == in.bucket.objects[ClaimBaseKey(path)].data.img
        scale == MatchReqPath(path).val.scale
    IN  /\ in.checked
        /\ scale # U32(1)
        /\ ClaimSideOverflows(img.width, scale) \/ ClaimSideOverflows(img.height, scale)

\* C11 as stated: a retrieval not answered from the cache gets 405 for a
\* method other than GET and otherwise the outcome of the first of: path
\* not matched 404, extension not png 404, store failure 500, base absent
\* 404, undecodable 500, encode failure 500, else 200 with the headers.
C11_OutcomesInOrder ==
    (probe.fn = "handle" /\ ~(probe.in.cached.ok /\ probe.in.cached.val.some)) =>
        /\ probe.out.response.status =
              (IF probe.in.request.method # "GET" THEN 405
               ELSE ClaimResolveStatus(probe.in))
        /\ ClaimServedHeaders(probe.out.response)

\* C11: the same, with the outcomes the statement leaves out: after the
\* method check a missing bucket binding gives 500 and a failed cache
\* lookup gives 500, and between decode and encode an upscale whose product
\* overflows in an overflow-checked build panics (no response of the
\* handler's own).
C11_OutcomesInOrderWithBindings ==
    (probe.fn = "handle" /\ ~(probe.in.cached.ok /\ probe.in.cached.val.some)) =>
        LET in == probe.in
            response == probe.out.response
            before == IF in.request.method # "GET" THEN 405
                      ELSE IF ~in.request.env_bucket THEN 500
                      ELSE IF ~in.cached.ok THEN 500
                      ELSE 0
            upTo   == IF before # 0 THEN before
                      ELSE IF ClaimResolveStatus([in EXCEPT !.encodes = TRUE]) # 200
                      THEN ClaimResolveStatus(in)
                      ELSE IF ClaimUpscalePanics(in) THEN -1
                      ELSE ClaimResolveStatus(in)
        IN  /\ upTo = -1 => response = Panicked
            /\ upTo # -1 => (response # Panicked /\ response.status = upTo)
            /\ ClaimServedHeaders(response)

\* A retrieval with a cache miss was served a freshly upscaled image.
C11_ServedFresh ==
    /\ probe.fn = "handle"
    /\ probe.in.cached = Ok(None)
    /\ probe.in.request.path = <<"/">> \o BmpHash \o <<"_", "1", "6", "x", ".", "p", "n", "g">>
    /\ probe.out.response.status = 200
    /\ probe.out.response.body.data.img.width = 512 * 16

\* The response a handler of the ingest worker sends for a probe of post_image.
ClaimIngestResponse(out) ==
    IF IsPanic(out.res) THEN Panicked
    ELSE IF out.res.ok THEN FromJson(<<>>)
    ELSE WithCors(ToResponse(out.res.err))

ClaimIs4xx(response) == response.status >= 400 /\ response.status < 500

\* C16 as stated: every 4xx response of the ingest or the retrieval handler
\* has a JSON body with a message.
C16_ClientErrorsHaveMessage ==
    /\ probe.fn = "post_image" =>
          (ClaimIs4xx(ClaimIngestResponse(probe.out)) =>
              ClaimIngestResponse(probe.out).body.kind = "json_message")
    /\ probe.fn = "handle" =>
          (ClaimIs4xx(probe.out.response) =>
              probe.out.response.body.kind = "json_message")

\* C16: every 4xx response of the ingest handler has a JSON body with a
\* message; every 4xx response the retrieval handler produces (404, 405)
\* has an empty body.
C16_IngestErrorsHaveMessage ==
    /\ probe.fn = "post_image" =>
          (ClaimIs4xx(ClaimIngestResponse(probe.out)) =>
              ClaimIngestResponse(probe.out).body.kind = "json_message")
    /\ (probe.fn = "handle" /\ ~(probe.in.cached.ok /\ probe.in.cached.val.some)) =>
          (ClaimIs4xx(probe.out.response) =>
              /\ probe.out.response.status \in {404, 405}
              /\ probe.out.response.body.kind = "empty")

\* An ingest was refused with a 413 that carries a message.
C16_IngestRefusedWithMessage ==
    /\ probe.fn = "post_image"
    /\ ClaimIngestResponse(probe.out).status = 413
    /\ ClaimIngestResponse(probe.out).body.kind = "json_message"

\* The one response a retrieval gives for NotFound.
ClaimNotFound == [status |-> 404, cors |-> FALSE, body |-> [kind |-> "empty"]]

\* C17: a retrieval (GET, bucket bound, cache miss) for a path the
\* KeyParser does not match and one for a well-formed path whose base image
\* is not in the store get the same response: status 404 and the same body.
C17_NotFoundIndistinguishable ==
    (/\ probe.fn = "handle"
     /\ probe.in.request.method = "GET"
     /\ probe.in.request.env_bucket
     /\ probe.in.cached = Ok(None))
    => LET path == probe.in.request.path IN
       /\ ~ClaimParses(path) => probe.out.response = ClaimNotFound
       /\ (/\ ClaimParses(path)
           /\ ClaimExt(path) = <<"p", "n", "g">>
           /\ probe.in.bucket.io # "get_err"
           /\ ClaimBaseKey(path) \notin DOMAIN probe.in.bucket.objects)
          => probe.out.response = ClaimNotFound

\* A well-formed path whose base image is missing was answered NotFound
\* while a derivative of the same hash was in the store.
C17_AbsentBase ==
    /\ probe.fn = "handle"
    /\ probe.in.cached = Ok(None)
    /\ ClaimParses(probe.in.request.path)
    /\ probe.out.reads = <<ClaimBaseKey(probe.in.request.path)>>
    /\ DOMAIN probe.in.bucket.objects # {}
    /\ probe.out.response = ClaimNotFound

\* C20: upscale(image, k) has the sides exactly (w*k, h*k), the products
\* taken over the integers, for every k it is called with, and k = 1 leaves
\* the image as it is.
C20_ExactDimensions ==
    probe.fn = "upscale_image" =>
        LET img == probe.in.img
            k   == probe.in.scale
            out == probe.out
            Exact(side, got) ==
                /\ got \div 65536 = side * k.hi + ((side * k.lo) \div 65536)
                /\ got % 65536 = (side * k.lo) % 65536
        IN  /\ ~IsPanic(out)
            /\ Exact(img.width, out.val.width)
            /\ Exact(img.height, out.val.height)
            /\ k = U32(1) => out.val = img

\* C18: ingests of byte-identical content that run concurrently write, for
\* every key, identical bytes: whatever the interleaving of their puts,
\* every key of the store holds the object of the content whose hash and
\* scale name it; an ingest whose operations all succeeded answers 200; and
\* once two such ingests have both answered 200 the store holds, for that
\* hash, exactly what a single ingest of the content writes.
C18_ConcurrentIdenticalIngests ==
    /\ [](\A r \in Requests :
            (pc[r] # "idle" /\ HasPayload(req[r])) =>
                LET p == ClaimPayload(req[r]) IN
                \A scale \in {1, 2, 4, 8, 16} :
                    ClaimKey(Sha256Hex(p), scale) \in DOMAIN store =>
                        store[ClaimKey(Sha256Hex(p), scale)] = ClaimObject(p, scale))
    /\ [](\A r1, r2 \in Requests :
            (/\ r1 # r2
             /\ pc[r1] = "done" /\ resp[r1].status = 200
             /\ pc[r2] = "done" /\ resp[r2].status = 200
             /\ ClaimPayload(req[r1]) = ClaimPayload(req[r2]))
            => LET p == ClaimPayload(req[r1])
                   pyramid == ClaimPyramid(ClaimLong(p))
               IN  \A scale \in {1, 2, 4, 8, 16} :
                       ClaimKey(Sha256Hex(p), scale) \in DOMAIN store
                           <=> \E i \in 1..Len(pyramid) : pyramid[i] = scale)
    /\ [][\A r \in Requests :
            (/\ pc[r] = "uploading"
             /\ pc'[r] = "done"
             /\ \A i \in 1..Len(outputs[r]) : outputs[r][i].some /\ outputs[r][i].val.ok)
            => resp'[r].status = 200]_vars

\* Two ingests of the same bytes are in flight together, each having
\* written a key the other has not yet.
C18_Interleaved ==
    \E r1, r2 \in Requests :
        /\ r1 # r2
        /\ pc[r1] = "uploading" /\ pc[r2] = "uploading"
        /\ ClaimPayload(req[r1]) = ClaimPayload(req[r2])
        /\ outputs[r1][1].some /\ outputs[r1][1].val.ok /\ 2 \in inflight[r1]
        /\ outputs[r2][2].some /\ outputs[r2][2].val.ok /\ 1 \in inflight[r2]

\* C19: an ingest launches one operation per scale of its pyramid and
\* answers only when every one of them has completed (no response, success
\* or failure, while a put is in flight), and an ingest whose operations
\* have all completed eventually answers.
C19_FanOutFanIn ==
    /\ [](\A r \in Requests :
            pc[r] = "uploading" =>
                /\ resp[r] = NoResponse
                /\ Len(outputs[r]) = Len(ClaimPyramid(ClaimLong(ClaimPayload(req[r])))))
    /\ [][\A r \in Requests :
            (pc[r] = "uploading" /\ pc'[r] = "done")
            => (inflight[r] = {} /\ \A i \in 1..Len(outputs[r]) : outputs[r][i].some)]_vars
    /\ \A r \in Requests :
          (pc[r] = "uploading" /\ inflight[r] = {}) ~> (pc[r] = "done")

\* One operation of an ingest has failed while another is still in flight.
C19_FailedWhileInFlight ==
    \E r \in Requests :
        /\ pc[r] = "uploading"
        /\ inflight[r] # {}
        /\ \E i \in 1..Len(outputs[r]) : outputs[r][i].some /\ ~outputs[r][i].val.ok

----------------------------------------------------------------------------
\* Retrieval over the shared bucket, as the claims speak of it

\* The path of the retrieval being handled ("" when there is none).
ClaimDynPath == IF dynPc = "idle" THEN <<>> ELSE dynReq.request.path

\* The retrieval being handled names a well-formed .png path.
ClaimDynValid ==
    /\ dynPc # "idle"
    /\ ClaimParses(ClaimDynPath)
    /\ ClaimExt(ClaimDynPath) = <<"p", "n", "g">>

\* This step resolves the retrieval from the store (after a cache miss).
ClaimResolves == dynPc = "generating" /\ dynPc' = "done"

\* This step is one of the retrieval path (not one of an ingest).
ClaimRetrievalStep == dynVars' # dynVars

\* This step runs a cache put that was handed to wait_until.
ClaimPutRuns == waitUntil' # waitUntil /\ waitUntil' \subseteq waitUntil

\* C12: a retrieval reads at most one store key, and only `{hash}.png` of
\* the hash its path names, whatever the scale: exactly that key when it is
\* resolved from the store with a well-formed path; no step of the retrieval
\* path writes the store; and a retrieval resolved while the base image is
\* absent is answered 404, also when a derivative of the hash is stored.
C12_ReadsOnlyTheBase ==
    /\ [](reads = <<>> \/ (ClaimDynValid /\ reads = <<ClaimBaseKey(ClaimDynPath)>>))
    /\ [][/\ ClaimRetrievalStep => store' = store
          /\ (ClaimResolves /\ ClaimDynValid) => reads' = <<ClaimBaseKey(ClaimDynPath)>>
          /\ (ClaimResolves /\ ClaimDynValid /\ dynReq.io = "ok"
              /\ ClaimBaseKey(ClaimDynPath) \notin DOMAIN store)
                 => dynResp'.status = 404]_vars

\* A 2x retrieval answered 404 after reading the base key, while the 2x
\* derivative an ingest wrote is in the store and the base is not.
C12_DerivativeStoredBaseAbsent ==
    /\ dynPc = "done"
    /\ dynReq.request.path = Bmp2xPath
    /\ dynResp.status = 404
    /\ reads = <<ClaimBaseKey(Bmp2xPath)>>
    /\ Tail(Bmp2xPath) \in DOMAIN store
    /\ ClaimBaseKey(Bmp2xPath) \notin DOMAIN store

\* C13 as stated: a retrieval resolved from the store for `/` followed by a
\* key that is in the store is served (200) unless the store fails.
C13_EveryWrittenKeyServed ==
    [][(ClaimResolves /\ dynReq.io = "ok" /\ Tail(ClaimDynPath) \in DOMAIN store)
          => dynResp'.status = 200]_vars

\* C13, amended: a retrieval resolved from the store for `/` followed by a
\* stored key is served (200) when the base image `{hash}.png` of its hash
\* is stored too, and answered 404 when it is not (store failures aside).
C13_WrittenKeyServedFromBase ==
    [][(ClaimResolves /\ dynReq.io = "ok" /\ Tail(ClaimDynPath) \in DOMAIN store)
          => dynResp'.status =
                IF ClaimBaseKey(ClaimDynPath) \in DOMAIN store THEN 200 ELSE 404]_vars

\* The 2x derivative served from the store after an ingest has failed.
C13_ServedAfterFailedIngest ==
    /\ dynPc = "done"
    /\ dynReq.request.path = Bmp2xPath
    /\ dynResp.status = 200
    /\ reads = <<ClaimBaseKey(Bmp2xPath)>>
    /\ Tail(Bmp2xPath) \in DOMAIN store
    /\ \E r \in Requests : pc[r] = "done" /\ resp[r].status = 500

\* C14: a cache put is scheduled only in the step that builds the 200
\* response, and it is the put of that response; a step in which a
\* scheduled put runs, succeeding or failing, leaves the retrieval's
\* response as it was; and the response of a retrieval resolved from the
\* store is never an error because of the cache.
C14_FireAndForget ==
    [][/\ \A w \in waitUntil' \ waitUntil :
             /\ ClaimResolves
             /\ dynResp'.status = 200
             /\ w = [path |-> ClaimDynPath, response |-> dynResp']
       /\ (ClaimResolves /\ dynResp'.status = 200) =>
             [path |-> ClaimDynPath, response |-> dynResp'] \in waitUntil'
       /\ (cache' # cache \/ ClaimPutRuns) =>
             /\ dynPc' = dynPc
             /\ dynResp' = dynResp
             /\ dynReq' = dynReq]_vars

\* A retrieval answered 200 whose cache put has run and failed: nothing is
\* cached for its path and no put is pending.
C14_ServedPutFailed ==
    /\ dynPc = "done"
    /\ dynResp.status = 200
    /\ reads # <<>>
    /\ ClaimDynPath \notin DOMAIN cache
    /\ waitUntil = {}

\* C15 as stated: a GET for a well-formed path whose base image is in the
\* store is answered 200 also when the cache lookup fails.
C15_LookupFailureTolerated ==
    (dynPc = "done" /\ dynReq.request.method = "GET" /\ dynReq.cache_get = "err"
     /\ ClaimDynValid /\ ClaimBaseKey(ClaimDynPath) \in DOMAIN store)
        => dynResp.status = 200

\* C15, amended: the cache write is best-effort, the cache lookup is not.
\* A GET whose cache lookup fails is answered 500 with an empty body and
\* reads nothing from the store; a cache put that fails changes neither the
\* response nor the cache.
C15_OnlyTheWriteIsBestEffort ==
    /\ []((dynPc # "idle" /\ dynReq.request.method = "GET" /\ dynReq.cache_get = "err")
            => /\ dynPc = "done"
               /\ dynResp.status = 500
               /\ dynResp.body.kind = "empty"
               /\ reads = <<>>)
    /\ [][(ClaimPutRuns /\ cache' = cache)
            => dynResp' = dynResp /\ dynPc' = dynPc]_vars

\* A GET for the stored base image answered 500 because the lookup failed.
C15_LookupFailedBaseStored ==
    /\ dynPc = "done"
    /\ dynReq.request.method = "GET"
    /\ dynReq.cache_get = "err"
    /\ ClaimDynValid
    /\ ClaimBaseKey(ClaimDynPath) \in DOMAIN store
    /\ dynResp.status = 500

----------------------------------------------------------------------------
\* The cache and the round trip, as the claims speak of them

\* What generate_upscaled_image returns for a path from the store as it is
\* now, the store answering.
ClaimFresh(path) ==
    GenerateUpscaledImage(path, [objects |-> store, io |-> "ok"], TRUE, FALSE).res

\* A response is a served image: 200, image/png, bytes.
ClaimIsImage(response) ==
    /\ response.status = 200
    /\ response.body.kind = "bytes"
    /\ response.headers.content_type = "image/png"

\* C21: every entry of the response cache is a 200 image/png response whose
\* bytes are those generate_upscaled_image returns for the entry's path from
\* the current store; so is every 200 a retrieval is answered with, from the
\* cache or computed.
C21_CacheAgreesWithStore ==
    /\ \A p \in DOMAIN cache :
          /\ ClaimIsImage(cache[p])
          /\ ClaimFresh(p) = Ok(cache[p].body.data)
    /\ (dynPc = "done" /\ dynResp.status = 200) =>
          /\ ClaimIsImage(dynResp)
          /\ ClaimFresh(ClaimDynPath) = Ok(dynResp.body.data)

\* The 2x image answered from the cache while both paths are cached and an
\* ingest is writing to the store.
C21_HitWhileIngesting ==
    /\ dynPc = "done"
    /\ ClaimDynPath = Bmp2xPath
    /\ reads = <<>>
    /\ dynResp.status = 200
    /\ DOMAIN cache = {BmpPath, Bmp2xPath}
    /\ \E r \in Requests : pc[r] = "uploading" /\ inflight[r] # {}

\* The ingests answered with their records.
ClaimSucceeded ==
    {r \in Requests : pc[r] = "done" /\ resp[r].status = 200
                      /\ resp[r].body.kind = "json_images"}

\* The paths `/` + name of the records successful ingests have returned.
ClaimRecordPaths ==
    UNION {{<<"/">> \o resp[r].body.images[i].name : i \in DOMAIN resp[r].body.images} :
           r \in ClaimSucceeded}

\* Every record of a successful ingest parses back to the ingest's hash, the
\* record's scale and "png", and the base key of the hash is in the store.
ClaimRecordsParse ==
    \A r \in ClaimSucceeded :
        /\ resp[r].body.images # <<>>
        /\ ClaimKey(Sha256Hex(ClaimPayload(req[r])), 1) \in DOMAIN store
        /\ \A i \in DOMAIN resp[r].body.images :
              LET rec   == resp[r].body.images[i]
                  parts == MatchReqPath(<<"/">> \o rec.name)
              IN  parts = Some([hash  |-> Sha256Hex(ClaimPayload(req[r])),
                                scale |-> U32(rec.scale),
                                ext   |-> <<"p", "n", "g">>])

\* This step answers a retrieval.
ClaimAnswers ==
    /\ dynPc' = "done"
    /\ dynPc # "done" \/ dynReq' # dynReq \/ dynResp' # dynResp

====
